---- MODULE Spec2Model ----
(***************************************************************************)
(* Model of the appointment_addons guest endpoints: the two get_time_slots *)
(* implementations (www/book_appointment.py, per-weekday ranges of         *)
(* "Appointment Booking Settings"; www/book-appointment.py, global hours   *)
(* of "Appointment Settings") and the create_appointment variants.         *)
(*                                                                         *)
(* Dates are day numbers (date 0 is a Monday), times of day are minutes    *)
(* since midnight, a datetime is date * 1440 + time.  A "%H:%M" string is  *)
(* the number HHMM (09:30 is 930), a "%H:%M:%S" string the number HHMMSS.  *)
(***************************************************************************)
EXTENDS Integers, Sequences, FiniteSets, TLC

VARIABLES
    settings_doc,        \* single "Appointment Booking Settings"
    availability_slots,  \* its child rows "Appointment Booking Slots", in idx order
    settings,            \* single "Appointment Settings"
    services,            \* durations of the active "Appointment Service" records
    bookings,            \* "Appointment Booking" and "Video Production Appointment" records
    now,                 \* the clock: datetime.now(); getdate() is its date
    request,             \* the payload of the last create_appointment call and what
                         \* the collaborators did during it
    response,            \* what the last endpoint call returned
    error_log,           \* titles passed to frappe.log_error, oldest first
    outbox,              \* appointment names for which frappe.sendmail succeeded
    user_availability,   \* "User Availability" records, in order of creation
    sweep                \* the while loop of get_time_slots over one range: its
                         \* position, cursor and the path of its last iteration

vars == <<settings_doc, availability_slots, settings, services, bookings, now,
          request, response, error_log, outbox, user_availability, sweep>>

----------------------------------------------------------------------------
(* Bounds of the model *)

MaxRanges == 2
MaxBookings == 2
MaxLog == 2
MaxAvailability == 4
MaxIterations == 3

----------------------------------------------------------------------------
(* Program constants *)

MinutesPerDay == 1440
BufferMinutes == 5
DefaultAppointmentDuration == 60
DefaultAdvanceBookingDays == 7
DefaultStartTime == 540
DefaultEndTime == 1080
DefaultSlotDuration == 60
HorizonDays == 30

NoTime == -1     \* a Time field that is not set (None)

DayNames == <<"Monday", "Tuesday", "Wednesday", "Thursday", "Friday", "Saturday", "Sunday">>

\* date.strftime("%A")
strftimeA(date) == DayNames[(date % 7) + 1]

\* time.strftime("%H:%M")
strftimeHM(t) == (t \div 60) * 100 + (t % 60)

\* time.strftime("%H:%M:%S") of a time with whole minutes
strftimeHMS(t) == strftimeHM(t) * 100

\* The Time value the database holds for a "HH:MM" string (booking_time of a payload)
TimeOfHM(s) == (s \div 100) * 60 + (s % 100)

\* The Time value the database compares with for a "HH:MM:SS" filter string
TimeOfHMS(s) == TimeOfHM(s \div 100)

\* datetime.combine(date, time)
combine(date, t) == date * MinutesPerDay + t

\* getdate(): the date of the clock
getdate(nw) == nw \div MinutesPerDay

\* day[0].upper() + day[1:].lower() of the stripped day_of_week
NormalizeDay(day) ==
    CASE day = "monday" -> "Monday"
      [] day = "tuesday" -> "Tuesday"
      [] day = " Monday " -> "Monday"
      [] OTHER -> day

Blocking == {"Pending", "Confirmed"}

\* A count that leaves the status filter out
CountBookedAnyStatus(bk, doctype, date, time_str) ==
    Cardinality({i \in 1..Len(bk) :
        /\ bk[i].doctype = doctype
        /\ bk[i].booking_date = date
        /\ bk[i].booking_time = TimeOfHMS(time_str)})

\* frappe.db.count(doctype, {booking_date, booking_time, status in [Pending, Confirmed]})
CountBooked(bk, doctype, date, time_str) ==
    Cardinality({i \in 1..Len(bk) :
        /\ bk[i].doctype = doctype
        /\ bk[i].booking_date = date
        /\ bk[i].booking_time = TimeOfHMS(time_str)
        /\ bk[i].status \in Blocking})

----------------------------------------------------------------------------
(* get_time_slots of www/book_appointment.py: per-weekday ranges *)

\* One entry of the returned list (the display strings are left out)
SlotDict(date, day_name, t, d) ==
    [date |-> date, day |-> day_name,
     from_time |-> strftimeHM(t % MinutesPerDay),
     to_time |-> strftimeHM((t + d) % MinutesPerDay)]

\* A sweep that emits the partial slot at the end of a range
FitsRangePartial(cur, d, end) == cur < end

\* A sweep that drops the slot ending exactly at to_time
FitsRangeStrict(cur, d, end) == cur + d < end

\* The condition of the while loop: the slot must end inside the range
FitsRange(cur, d, end) == cur + d <= end

\* "Skip past times (allow 5 minute buffer)"
IsPastA(cur, nw) == cur < nw - BufferMinutes

\* The two frappe.db.count lookups of the slot's start time
IsBookedA(bk, date, cur) ==
    \/ CountBooked(bk, "Appointment Booking", date, strftimeHMS(cur % MinutesPerDay)) > 0
    \/ CountBooked(bk, "Video Production Appointment", date, strftimeHMS(cur % MinutesPerDay)) > 0

\* The while loop over one range, for a duration d > 0
RECURSIVE SweepA(_, _, _, _, _, _)
SweepA(date, cur, end, d, nw, bk) ==
    IF FitsRange(cur, d, end)
    THEN IF IsPastA(cur, nw)
         THEN SweepA(date, cur + d, end, d, nw, bk)
         ELSE (IF IsBookedA(bk, date, cur)
               THEN <<>>
               ELSE <<SlotDict(date, strftimeA(date), cur, d)>>)
              \o SweepA(date, cur + d, end, d, nw, bk)
    ELSE <<>>

\* A range whose from_time or to_time is not set is skipped
RangeUsable(r) == r.from_time # NoTime /\ r.to_time # NoTime

\* With d < 0 the cursor of an entered loop only moves back, the condition stays
\* true, and the datetime arithmetic ends in OverflowError
RangeRaises(r, d) == RangeUsable(r) /\ d < 0 /\ r.from_time + d <= r.to_time

\* The rows of a weekday, in idx order: availability_by_day[day_name]
availability_by_day(rows, day_name) ==
    SelectSeq(rows, LAMBDA r : r.day_of_week # "" /\ NormalizeDay(r.day_of_week) = day_name)

\* The slots of a list that are not in another list, in order
Without(slots, seen) == SelectSeq(slots, LAMBDA s : \A i \in 1..Len(seen) : seen[i] # s)

\* A loop over the ranges that drops a slot an earlier range of the day produced
RECURSIVE DaySlotsADeduplicated(_, _, _, _, _, _)
DaySlotsADeduplicated(date, ranges, k, d, nw, bk) ==
    IF k > Len(ranges) THEN <<>>
    ELSE LET swept == IF RangeUsable(ranges[k])
                      THEN SweepA(date, combine(date, ranges[k].from_time),
                                  combine(date, ranges[k].to_time), d, nw, bk)
                      ELSE <<>>
         IN swept \o Without(DaySlotsADeduplicated(date, ranges, k + 1, d, nw, bk), swept)

\* "for time_range in availability_by_day[day_name]", from the k-th range on
RECURSIVE DaySlotsA(_, _, _, _, _, _)
DaySlotsA(date, ranges, k, d, nw, bk) ==
    IF k > Len(ranges) THEN <<>>
    ELSE (IF RangeUsable(ranges[k])
          THEN SweepA(date, combine(date, ranges[k].from_time),
                      combine(date, ranges[k].to_time), d, nw, bk)
          ELSE <<>>)
         \o DaySlotsA(date, ranges, k + 1, d, nw, bk)

\* "for i in range(advance_booking_days)", from offset i on
RECURSIVE HorizonA(_, _, _, _, _, _, _)
HorizonA(rows, today, i, n, d, nw, bk) ==
    IF i >= n THEN <<>>
    ELSE DaySlotsA(today + i, availability_by_day(rows, strftimeA(today + i)), 1, d, nw, bk)
         \o HorizonA(rows, today, i + 1, n, d, nw, bk)

\* int(getattr(settings_doc, 'appointment_duration', 60) or 60)
DurationA(sd) ==
    IF sd.appointment_duration = 0 THEN DefaultAppointmentDuration
    ELSE sd.appointment_duration

\* int(getattr(settings_doc, 'advance_booking_days', 7) or 7)
AdvanceDaysAOneMore(sd) ==
    (IF sd.advance_booking_days = 0 THEN DefaultAdvanceBookingDays
     ELSE sd.advance_booking_days) + 1

AdvanceDaysA(sd) ==
    IF sd.advance_booking_days = 0 THEN DefaultAdvanceBookingDays
    ELSE sd.advance_booking_days

\* Whether some sweep of the horizon raises
HorizonRaisesA(rows, today, n, d) ==
    \E i \in 0..(n - 1) :
        LET ranges == availability_by_day(rows, strftimeA(today + i))
        IN \E k \in 1..Len(ranges) : RangeRaises(ranges[k], d)

\* A variant that generates slots whether or not scheduling is enabled
SchedulingIgnored(sd) == TRUE

\* "enable_scheduling = int(getattr(settings_doc, 'enable_scheduling', 0))"
SchedulingEnabled(sd) == sd.enable_scheduling # 0

\* The whole function when every lookup works: the list it returns and the titles
\* it logs
get_time_slots_A(sd, rows, bk, nw) ==
    IF ~sd.exists \/ ~SchedulingEnabled(sd) \/ rows = <<>>
       \/ (\A k \in 1..Len(rows) : rows[k].day_of_week = "")
    THEN [returned |-> TRUE, slots |-> <<>>, log |-> <<"Time Slots Error">>]
    ELSE IF HorizonRaisesA(rows, getdate(nw), AdvanceDaysA(sd), DurationA(sd))
    THEN [returned |-> TRUE, slots |-> <<>>, log |-> <<"Error fetching time slots">>]
    ELSE [returned |-> TRUE,
          slots |-> HorizonA(rows, getdate(nw), 0, AdvanceDaysA(sd), DurationA(sd), nw, bk),
          log |-> <<>>]

\* The lookups of the two functions that can raise: the settings document, the
\* availability rows (book_appointment.py), the active services (book-appointment.py),
\* the bookings of a candidate slot
Lookups == {"none", "settings", "rows", "services", "bookings"}

\* What an "except Exception" branch of get_time_slots returns and logs
Caught(title) == [returned |-> TRUE, slots |-> <<>>, log |-> <<title>>]

\* The function when the lookup named by failing raises.  The settings are read
\* first (their failure is logged as "Time Slots Error"), the rows after the
\* enable_scheduling check, the bookings once per candidate that is not in the past;
\* a lookup the call never reaches cannot raise
get_time_slots_A_raising(sd, rows, bk, nw, failing) ==
    LET normal == get_time_slots_A(sd, rows, bk, nw)
    IN IF failing = "settings" THEN Caught("Time Slots Error")
       ELSE IF ~sd.exists \/ ~SchedulingEnabled(sd) THEN normal
       ELSE IF failing = "rows" THEN Caught("Error fetching time slots")
       ELSE IF /\ failing = "bookings"
               /\ normal.log = <<>>
               /\ get_time_slots_A(sd, rows, <<>>, nw).slots # <<>>
       THEN Caught("Error fetching time slots")
       ELSE normal

----------------------------------------------------------------------------
(* get_time_slots of www/book-appointment.py: global working hours *)

\* "if not start_time: start_time = time_module(9, 0)"
StartTimeB(st) ==
    IF st.working_start_time = NoTime THEN DefaultStartTime ELSE st.working_start_time

\* "if not end_time: end_time = time_module(18, 0)"
EndTimeB(st) ==
    IF st.working_end_time = NoTime THEN DefaultEndTime ELSE st.working_end_time

RECURSIVE SeqMin(_)
SeqMin(s) ==
    IF Len(s) = 1 THEN s[1]
    ELSE LET m == SeqMin(Tail(s)) IN IF s[1] <= m THEN s[1] ELSE m

\* min of the active services' durations, else settings.default_slot_duration or 60
SlotDurationB(st, svc) ==
    IF svc # <<>> THEN SeqMin(svc)
    ELSE IF st.default_slot_duration = 0 THEN DefaultSlotDuration
    ELSE st.default_slot_duration

\* day_mapping applied to the ticked checkboxes, Monday to Friday when none is ticked
day_mapping(field_name) ==
    CASE field_name = "monday" -> "Monday"
      [] field_name = "tuesday" -> "Tuesday"
      [] field_name = "wednesday" -> "Wednesday"
      [] field_name = "thursday" -> "Thursday"
      [] field_name = "friday" -> "Friday"
      [] field_name = "saturday" -> "Saturday"
      [] field_name = "sunday" -> "Sunday"

\* A variant without the default: no ticked day, no working day
WorkingDaysBNoDefault(st) == {day_mapping(f) : f \in st.days}

WorkingDaysB(st) ==
    IF st.days = {}
    THEN {"Monday", "Tuesday", "Wednesday", "Thursday", "Friday"}
    ELSE {day_mapping(f) : f \in st.days}

\* A past check that keeps the slot starting exactly now
IsPastBStrict(cur, nw) == cur < nw

\* "if slot_datetime <= now"
IsPastB(cur, nw) == cur <= nw

\* The frappe.get_all lookup: Appointment Booking records only
IsBookedB(bk, date, cur) ==
    CountBooked(bk, "Appointment Booking", date, strftimeHMS(cur % MinutesPerDay)) > 0

\* The while loop over one day, for a duration d > 0
RECURSIVE SweepB(_, _, _, _, _, _)
SweepB(date, cur, end, d, nw, bk) ==
    IF FitsRange(cur, d, end)
    THEN IF IsPastB(cur, nw)
         THEN SweepB(date, cur + d, end, d, nw, bk)
         ELSE (IF IsBookedB(bk, date, cur)
               THEN <<>>
               ELSE <<SlotDict(date, strftimeA(date), cur, d)>>)
              \o SweepB(date, cur + d, end, d, nw, bk)
    ELSE <<>>

\* "for i in range(30)", from offset i on
RECURSIVE HorizonB(_, _, _, _, _, _, _, _)
HorizonB(wd, start, end, today, i, d, nw, bk) ==
    IF i >= HorizonDays THEN <<>>
    ELSE (IF strftimeA(today + i) \in wd
          THEN SweepB(today + i, combine(today + i, start), combine(today + i, end), d, nw, bk)
          ELSE <<>>)
         \o HorizonB(wd, start, end, today, i + 1, d, nw, bk)

\* The loop of a working day is entered
EntersB(st, d) == StartTimeB(st) + d <= EndTimeB(st)

\* The whole function when every lookup works.  With d = 0 an entered loop never
\* advances its cursor and the call does not return; with d < 0 it ends in
\* OverflowError, caught and logged.
get_time_slots_B(st, svc, bk, nw) ==
    LET d == SlotDurationB(st, svc)
    IN IF ~st.exists
       THEN [returned |-> TRUE, slots |-> <<>>, log |-> <<"Time Slots Error">>]
       ELSE IF d = 0 /\ EntersB(st, d)
       THEN [returned |-> FALSE, slots |-> <<>>, log |-> <<>>]
       ELSE IF d < 0 /\ EntersB(st, d)
       THEN [returned |-> TRUE, slots |-> <<>>, log |-> <<"Error fetching time slots">>]
       ELSE [returned |-> TRUE,
             slots |-> HorizonB(WorkingDaysB(st), StartTimeB(st), EndTimeB(st),
                                getdate(nw), 0, d, nw, bk),
             log |-> <<>>]

\* The first working day of the horizon (every weekday occurs within 30 days)
FirstWorkingDateB(st, today) ==
    today + CHOOSE i \in 0..(HorizonDays - 1) :
                /\ strftimeA(today + i) \in WorkingDaysB(st)
                /\ \A j \in 0..(i - 1) : strftimeA(today + j) \notin WorkingDaysB(st)

\* The function when the lookup named by failing raises.  The settings and the
\* services are read before the loops; the bookings are read once per candidate that
\* is not in the past, so with d = 0 a first candidate in the past keeps the loop
\* spinning before any lookup
get_time_slots_B_raising(st, svc, bk, nw, failing) ==
    LET normal == get_time_slots_B(st, svc, bk, nw)
        d == SlotDurationB(st, svc)
    IN IF failing = "settings" THEN Caught("Error fetching time slots")
       ELSE IF ~st.exists THEN normal
       ELSE IF failing = "services" THEN Caught("Error fetching time slots")
       ELSE IF failing # "bookings" THEN normal
       ELSE IF d = 0 /\ EntersB(st, d)
       THEN IF IsPastB(combine(FirstWorkingDateB(st, getdate(nw)), StartTimeB(st)), nw)
            THEN normal
            ELSE Caught("Error fetching time slots")
       ELSE IF normal.log = <<>> /\ get_time_slots_B(st, svc, <<>>, nw).slots # <<>>
       THEN Caught("Error fetching time slots")
       ELSE normal

----------------------------------------------------------------------------
(* create_appointment: the two general variants and the video-production variant *)

NoStr == -1      \* a payload key that is missing (date and time strings are numbers here)
NoName == <<"", 0>>

\* str(e) and traceback.format_exc() of an exception raised inside a collaborator
\* (the database, the document layer)
InternalErrorText == "OperationalError: (1054, Unknown column)"
TracebackText == "Traceback (most recent call last): ..."

\* validate_email_address(email, throw=True) accepts the address
ValidEmail(email) == email = "guest@example.com"

\* A variant that first refuses a date and time already held by a Pending or
\* Confirmed Appointment Booking
ValidateGeneralIfFree(data) ==
    IF \E i \in 1..Len(bookings) :
          /\ bookings[i].doctype = "Appointment Booking"
          /\ bookings[i].status \in Blocking
          /\ bookings[i].booking_date = data.booking_date
          /\ bookings[i].booking_time = TimeOfHM(data.booking_time)
    THEN "This time slot is no longer available"
    ELSE IF data.customer_name = "" THEN "Customer Name is required"
    ELSE IF data.phone_number = "" THEN "Phone Number is required"
    ELSE IF data.email = "" THEN "Email is required"
    ELSE IF ~ValidEmail(data.email) THEN "is not a valid Email Address"
    ELSE IF data.selected_services = <<>> THEN "Please select at least one service"
    ELSE IF data.meeting_location = "" THEN "Meeting Location is required"
    ELSE IF data.booking_date = NoStr THEN "Booking Date is required"
    ELSE IF data.booking_time = NoStr THEN "Booking Time is required"
    ELSE ""

\* A variant that checks the phone number before the customer name
ValidateGeneralPhoneFirst(data) ==
    IF data.phone_number = "" THEN "Phone Number is required"
    ELSE IF data.customer_name = "" THEN "Customer Name is required"
    ELSE IF data.email = "" THEN "Email is required"
    ELSE IF ~ValidEmail(data.email) THEN "is not a valid Email Address"
    ELSE IF data.selected_services = <<>> THEN "Please select at least one service"
    ELSE IF data.meeting_location = "" THEN "Meeting Location is required"
    ELSE IF data.booking_date = NoStr THEN "Booking Date is required"
    ELSE IF data.booking_time = NoStr THEN "Booking Time is required"
    ELSE ""

\* The frappe.throw checks of the general variants, in source order: the message of
\* the first check that fails, "" when all pass
ValidateGeneral(data) ==
    IF data.customer_name = "" THEN "Customer Name is required"
    ELSE IF data.phone_number = "" THEN "Phone Number is required"
    ELSE IF data.email = "" THEN "Email is required"
    ELSE IF ~ValidEmail(data.email) THEN "is not a valid Email Address"
    ELSE IF data.selected_services = <<>> THEN "Please select at least one service"
    ELSE IF data.meeting_location = "" THEN "Meeting Location is required"
    ELSE IF data.booking_date = NoStr THEN "Booking Date is required"
    ELSE IF data.booking_time = NoStr THEN "Booking Time is required"
    ELSE ""

\* "if company in [Direct Line, Directlines]: company = Directlines"
NormalizeCompany(company) ==
    IF company \in {"Direct Line", "Directlines"} THEN "Directlines" ELSE company

\* The frappe.throw checks of the video-production variant, in source order
ValidateVideo(data) ==
    IF data.customer_name = "" THEN "Customer Name is required"
    ELSE IF data.phone_number = "" THEN "Phone Number is required"
    ELSE IF data.email = "" THEN "Email is required"
    ELSE IF ~ValidEmail(data.email) THEN "is not a valid Email Address"
    ELSE IF data.appointment_type = "" THEN "Appointment Type is required"
    ELSE IF data.meeting_location = "" THEN "Meeting Location is required"
    ELSE IF data.booking_date = NoStr THEN "Booking Date is required"
    ELSE IF data.booking_time = NoStr THEN "Booking Time is required"
    ELSE IF NormalizeCompany(data.company) \notin {"Easy AI", "Directlines"}
         THEN "Invalid company selected"
    ELSE ""

\* VideoProductionAppointment.validate: the message it throws, "" when it passes
ValidateVideoDoc(doc) ==
    IF doc.appointment_type = "New Customer"
    THEN IF doc.industry = "" THEN "Industry is required for New Customer appointments"
         ELSE IF doc.requirements = "" THEN "Requirements is required for New Customer appointments"
         ELSE IF doc.budget = "" THEN "Budget is required for New Customer appointments"
         ELSE ""
    ELSE IF doc.appointment_type = "Current Active Client"
    THEN IF doc.brand_name = ""
         THEN "Name of Your Brand is required for Current Active Client appointments"
         ELSE IF doc.booking_date = NoStr
         THEN "Schedule is required for Current Active Client appointments"
         ELSE IF doc.acknowledgment_checkbox = 0
         THEN "Please acknowledge the cancellation policy"
         ELSE ""
    ELSE ""

\* The name the naming series gives the next record of a doctype
NextName(bk, series) ==
    <<series, Cardinality({i \in 1..Len(bk) : bk[i].name[1] = series}) + 1>>

\* The status a new Appointment Booking gets when the code sets none
DefaultStatus == "Pending"

\* frappe.get_doc({...}) of the general variants, as the record doc.insert stores
GeneralDoc(data, status, bk, nw) ==
    [doctype |-> "Appointment Booking",
     name |-> NextName(bk, "APT"),
     creation |-> nw,
     booking_date |-> data.booking_date,
     booking_time |-> TimeOfHM(data.booking_time),
     status |-> status,
     appointment_type |-> "", industry |-> "", requirements |-> "", budget |-> "",
     brand_name |-> "", acknowledgment_checkbox |-> 0]

\* frappe.get_doc({...}) of the video-production variant and its type-specific fields
VideoDocWithStatus(data, bk, nw, status) ==
    [doctype |-> "Video Production Appointment",
     name |-> NextName(bk, "VPA"),
     creation |-> nw,
     booking_date |-> data.booking_date,
     booking_time |-> TimeOfHM(data.booking_time),
     status |-> status,
     appointment_type |-> data.appointment_type,
     industry |-> IF data.appointment_type = "New Customer" THEN data.industry ELSE "",
     requirements |-> IF data.appointment_type = "New Customer" THEN data.requirements ELSE "",
     budget |-> IF data.appointment_type = "New Customer" THEN data.budget ELSE "",
     brand_name |-> IF data.appointment_type = "New Customer" THEN "" ELSE data.brand_name,
     acknowledgment_checkbox |->
         IF data.appointment_type = "New Customer" THEN 0 ELSE data.acknowledgment_checkbox]

\* A variant that stores the record without a status
VideoDocNoStatus(data, bk, nw) == VideoDocWithStatus(data, bk, nw, "")

\* "status": "Pending"
VideoDoc(data, bk, nw) == VideoDocWithStatus(data, bk, nw, "Pending")

NoPayload ==
    [customer_name |-> "", phone_number |-> "", email |-> "", selected_services |-> <<>>,
     meeting_location |-> "", booking_date |-> NoStr, booking_time |-> NoStr,
     appointment_type |-> "", company |-> "Directlines", industry |-> "",
     requirements |-> "", budget |-> "", brand_name |-> "", acknowledgment_checkbox |-> 0]

NoRequest ==
    [data |-> NoPayload, customer_exists |-> TRUE, insert_ok |-> TRUE, mail_ok |-> TRUE]

NoResponse ==
    [fn |-> "none", impl |-> "none", returned |-> TRUE, slots |-> <<>>,
     success |-> FALSE, message |-> "", appointment_id |-> NoName,
     error |-> "", traceback |-> ""]

CreateResponse(impl, success, message, id) ==
    [fn |-> "create_appointment", impl |-> impl, returned |-> TRUE, slots |-> <<>>,
     success |-> success, message |-> message, appointment_id |-> id,
     error |-> "", traceback |-> ""]

\* The "except Exception" branch: log the error, answer success false with its text
CreateFails(impl, title, message) ==
    /\ Len(error_log) < MaxLog
    /\ error_log' = Append(error_log, title)
    /\ response' = CreateResponse(impl, FALSE, message, NoName)
    /\ UNCHANGED <<bookings, outbox>>

\* What the general variants log when send_confirmation_email raises ("except: pass")
GeneralMailFailureLog == <<>>

\* The body shared by the two general variants
CreateGeneral(impl, status, data, insert_ok, mail_ok) ==
    LET err == ValidateGeneral(data)
        doc == GeneralDoc(data, status, bookings, now)
    IN IF err # "" THEN CreateFails(impl, "Appointment Booking Error", err)
       ELSE IF ~insert_ok
       THEN CreateFails(impl, "Appointment Booking Error", InternalErrorText)
       ELSE /\ Len(bookings) < MaxBookings
            /\ mail_ok \/ Len(error_log) + Len(GeneralMailFailureLog) <= MaxLog
            /\ bookings' = Append(bookings, doc)
            /\ outbox' = IF mail_ok THEN outbox \cup {doc.name} ELSE outbox
            /\ error_log' = IF mail_ok THEN error_log
                            ELSE error_log \o GeneralMailFailureLog
            /\ response' = CreateResponse(impl, TRUE, "booked", doc.name)

\* A call in flight: the payload, whether a Customer matches the email, whether
\* doc.insert stores the record and whether frappe.sendmail delivers
Request(data, customer_exists, insert_ok, mail_ok) ==
    [data |-> data, customer_exists |-> customer_exists, insert_ok |-> insert_ok,
     mail_ok |-> mail_ok]

\* create_appointment of www/book_appointment.py
CreateAppointmentA(data, insert_ok, mail_ok) ==
    /\ request' = Request(data, request.customer_exists, insert_ok, mail_ok)
    /\ CreateGeneral("book_appointment", "Pending", data, insert_ok, mail_ok)
    /\ UNCHANGED <<sweep, user_availability, settings_doc, availability_slots, settings, services, now>>

\* create_appointment of www/book-appointment.py: the document carries no status
CreateAppointmentB(data, insert_ok, mail_ok) ==
    /\ request' = Request(data, request.customer_exists, insert_ok, mail_ok)
    /\ CreateGeneral("book-appointment", DefaultStatus, data, insert_ok, mail_ok)
    /\ UNCHANGED <<sweep, user_availability, settings_doc, availability_slots, settings, services, now>>

\* What send_email_notification logs when frappe.sendmail raises
VideoMailFailureLog == <<"Email Notification Error">>

\* What after_insert logs first: validate_active_client found no Customer for the
\* email of a Current Active Client
VerificationLog(doc, customer_exists) ==
    IF doc.appointment_type = "Current Active Client" /\ ~customer_exists
    THEN <<"Customer Verification Needed">>
    ELSE <<>>

\* create_appointment of www/video-production-appointment.py; doc.insert runs
\* before_insert and validate, stores the record and runs after_insert, which sends
\* the notification
CreateAppointmentV(data, customer_exists, insert_ok, mail_ok) ==
    LET impl == "video-production-appointment"
        title == "Video Production Appointment Booking Error"
        err == ValidateVideo(data)
        doc == VideoDoc(data, bookings, now)
        logged == VerificationLog(doc, customer_exists)
                  \o (IF mail_ok THEN <<>> ELSE VideoMailFailureLog)
    IN /\ request' = Request(data, customer_exists, insert_ok, mail_ok)
       /\ IF err # "" THEN CreateFails(impl, title, err)
          ELSE IF ValidateVideoDoc(doc) # "" THEN CreateFails(impl, title, ValidateVideoDoc(doc))
          ELSE IF ~insert_ok THEN CreateFails(impl, title, InternalErrorText)
          ELSE /\ Len(bookings) < MaxBookings
               /\ Len(error_log) + Len(logged) <= MaxLog
               /\ bookings' = Append(bookings, doc)
               /\ outbox' = IF mail_ok THEN outbox \cup {doc.name} ELSE outbox
               /\ error_log' = error_log \o logged
               /\ response' = CreateResponse(impl, TRUE, "submitted", doc.name)
       /\ UNCHANGED <<sweep, user_availability, settings_doc, availability_slots, settings, services, now>>

----------------------------------------------------------------------------
(* The debug endpoints: what they return when reading the settings raises *)

\* The dict a debug endpoint returns: the settings' values (left out here) when the
\* lookup works, else {"error": str(e), "traceback": traceback.format_exc()}
DebugResponse(fn, impl, lookup_ok) ==
    [fn |-> fn, impl |-> impl, returned |-> TRUE, slots |-> <<>>,
     success |-> FALSE, message |-> "", appointment_id |-> NoName,
     error |-> IF lookup_ok THEN "" ELSE InternalErrorText,
     traceback |-> IF lookup_ok THEN "" ELSE TracebackText]

\* debug_appointment_settings of www/book_appointment.py
DebugAppointmentSettings(lookup_ok) ==
    /\ response' = DebugResponse("debug_appointment_settings", "book_appointment", lookup_ok)
    /\ UNCHANGED <<sweep, user_availability, settings_doc, availability_slots, settings, services, bookings, now,
                   request, error_log, outbox>>

\* get_settings_info of www/book-appointment.py
GetSettingsInfo(lookup_ok) ==
    /\ response' = DebugResponse("get_settings_info", "book-appointment", lookup_ok)
    /\ UNCHANGED <<sweep, user_availability, settings_doc, availability_slots, settings, services, bookings, now,
                   request, error_log, outbox>>

----------------------------------------------------------------------------
(* save_availability of www/availability-settings.py *)

\* The index of the record frappe.db.exists finds for a user and a weekday, 0 if none
ExistingAvailability(store, user, day) ==
    LET found == {i \in 1..Len(store) : store[i].user = user /\ store[i].day_of_week = day}
    IN IF found = {} THEN 0 ELSE CHOOSE i \in found : \A j \in found : i <= j

\* The child rows appended for an entry: its time_slots when is_available is set
AvailabilityRows(entry) ==
    IF entry.is_available # 0
    THEN [k \in 1..Len(entry.time_slots) |->
            [from_time |-> TimeOfHM(entry.time_slots[k].from_time),
             to_time |-> TimeOfHM(entry.time_slots[k].to_time)]]
    ELSE <<>>

\* A variant that inserts a new record for every entry
ApplyEntryAlwaysInsert(store, user, entry) ==
    Append(store, [name |-> <<"UA", Len(store) + 1>>, user |-> user,
                   day_of_week |-> entry.day, is_available |-> entry.is_available,
                   time_slots |-> AvailabilityRows(entry)])

\* One pass of "for day_data in data": update the existing record or insert a new one
ApplyEntry(store, user, entry) ==
    LET existing == ExistingAvailability(store, user, entry.day)
    IN IF existing # 0
       THEN [store EXCEPT ![existing] =
                [@ EXCEPT !.is_available = entry.is_available,
                          !.time_slots = AvailabilityRows(entry)]]
       ELSE Append(store, [name |-> <<"UA", Len(store) + 1>>, user |-> user,
                           day_of_week |-> entry.day, is_available |-> entry.is_available,
                           time_slots |-> AvailabilityRows(entry)])

\* The first n entries of a payload applied in order
RECURSIVE ApplyEntries(_, _, _, _)
ApplyEntries(store, user, data, n) ==
    IF n = 0 THEN store
    ELSE ApplyEntry(ApplyEntries(store, user, data, n - 1), user, data[n])

SaveResponse(success, message) ==
    [fn |-> "save_availability", impl |-> "availability-settings", returned |-> TRUE,
     slots |-> <<>>, success |-> success, message |-> message, appointment_id |-> NoName,
     error |-> "", traceback |-> ""]

\* save_availability for the session's user; doc.save or doc.insert of the entry
\* fail_at raises (0: none does).  The exception is caught inside the function, so
\* the entries saved before it stay saved
SaveAvailability(user, data, fail_at) ==
    LET fails == fail_at \in 1..Len(data)
        done == IF user = "Guest" THEN 0
                ELSE IF fails THEN fail_at - 1 ELSE Len(data)
    IN /\ Len(ApplyEntries(user_availability, user, data, done)) <= MaxAvailability
       /\ user_availability' = ApplyEntries(user_availability, user, data, done)
       /\ IF user = "Guest" \/ fails
          THEN /\ Len(error_log) < MaxLog
               /\ error_log' = Append(error_log, "Availability Settings Error")
               /\ response' = SaveResponse(FALSE, IF user = "Guest"
                                                  THEN "You need to be logged in"
                                                  ELSE InternalErrorText)
          ELSE /\ error_log' = error_log
               /\ response' = SaveResponse(TRUE, "saved")
       /\ UNCHANGED <<sweep, settings_doc, availability_slots, settings, services, bookings, now,
                      request, outbox>>

----------------------------------------------------------------------------
(* The get_time_slots endpoints as actions *)

SlotsResponse(impl, r) ==
    [fn |-> "get_time_slots", impl |-> impl, returned |-> r.returned, slots |-> r.slots,
     success |-> FALSE, message |-> "", appointment_id |-> NoName,
     error |-> "", traceback |-> ""]

GetTimeSlotsA(failing) ==
    LET r == get_time_slots_A_raising(settings_doc, availability_slots, bookings, now,
                                      failing)
    IN /\ Len(error_log) + Len(r.log) <= MaxLog
       /\ response' = SlotsResponse("book_appointment", r)
       /\ error_log' = error_log \o r.log
       /\ UNCHANGED <<sweep, user_availability, settings_doc, availability_slots, settings, services, bookings,
                      now, request, outbox>>

GetTimeSlotsB(failing) ==
    LET r == get_time_slots_B_raising(settings, services, bookings, now, failing)
    IN /\ Len(error_log) + Len(r.log) <= MaxLog
       /\ response' = SlotsResponse("book-appointment", r)
       /\ error_log' = error_log \o r.log
       /\ UNCHANGED <<sweep, user_availability, settings_doc, availability_slots, settings, services, bookings,
                      now, request, outbox>>

----------------------------------------------------------------------------
(* The while loop of get_time_slots over one range, one iteration at a time *)

\* datetime.min: a datetime sum below it raises OverflowError
DatetimeMin == 0

NoSweep ==
    [pc |-> "idle", impl |-> "none", date |-> 0, cursor |-> 0, end |-> 0, d |-> 0,
     path |-> "none", steps |-> 0]

\* A loop of book_appointment.py before the k-th range of the day at offset i was
\* entered with a negative duration, so the call ended there in OverflowError
EarlierRaisesA(rows, today, i, k, d) ==
    \E i2 \in 0..i :
        LET ranges == availability_by_day(rows, strftimeA(today + i2))
        IN \E k2 \in 1..Len(ranges) :
              (i2 < i \/ k2 < k) /\ RangeRaises(ranges[k2], d)

\* book_appointment.py reaches the loop of the k-th range of the day at offset i:
\* current_time = datetime.combine(date, from_time)
BeginSweepA(i, k) ==
    /\ sweep.pc = "idle"
    /\ settings_doc.exists /\ SchedulingEnabled(settings_doc)
    /\ i \in 0..(AdvanceDaysA(settings_doc) - 1)
    /\ LET date == getdate(now) + i
           ranges == availability_by_day(availability_slots, strftimeA(date))
           d == DurationA(settings_doc)
       IN /\ k \in 1..Len(ranges)
          /\ RangeUsable(ranges[k])
          /\ ~EarlierRaisesA(availability_slots, getdate(now), i, k, d)
          /\ sweep' = [pc |-> "loop", impl |-> "book_appointment", date |-> date,
                       cursor |-> combine(date, ranges[k].from_time),
                       end |-> combine(date, ranges[k].to_time), d |-> d,
                       path |-> "none", steps |-> 0]
    /\ UNCHANGED <<settings_doc, availability_slots, settings, services, bookings, now,
                   request, response, error_log, outbox, user_availability>>

\* book-appointment.py reaches the loop of the working day at offset i; with a
\* duration that is not positive the loop of the first working day never hands over
\* to the next day's
BeginSweepB(i) ==
    /\ sweep.pc = "idle"
    /\ settings.exists
    /\ i \in 0..(HorizonDays - 1)
    /\ LET date == getdate(now) + i
           d == SlotDurationB(settings, services)
       IN /\ strftimeA(date) \in WorkingDaysB(settings)
          /\ (d > 0 \/ ~EntersB(settings, d)
                \/ date = FirstWorkingDateB(settings, getdate(now)))
          /\ sweep' = [pc |-> "loop", impl |-> "book-appointment", date |-> date,
                       cursor |-> combine(date, StartTimeB(settings)),
                       end |-> combine(date, EndTimeB(settings)), d |-> d,
                       path |-> "none", steps |-> 0]
    /\ UNCHANGED <<settings_doc, availability_slots, settings, services, bookings, now,
                   request, response, error_log, outbox, user_availability>>

\* The path an iteration takes from a cursor: the past-slot skip, the booked slot or
\* the appended slot.  book-appointment.py rebuilds slot_datetime from the day of the
\* loop and the cursor's time of day.
PathOf(sw) ==
    IF sw.impl = "book_appointment"
    THEN (IF IsPastA(sw.cursor, now) THEN "past"
          ELSE IF IsBookedA(bookings, sw.date, sw.cursor) THEN "booked" ELSE "emit")
    ELSE (IF IsPastB(combine(sw.date, sw.cursor % MinutesPerDay), now) THEN "past"
          ELSE IF IsBookedB(bookings, sw.date, sw.cursor) THEN "booked" ELSE "emit")

\* One iteration of the while loop: whatever the path, it ends in
\* "current_time += timedelta(minutes=duration)"
SweepIteration ==
    /\ sweep.pc = "loop"
    /\ sweep.cursor + sweep.d >= DatetimeMin
    /\ FitsRange(sweep.cursor, sweep.d, sweep.end)
    /\ sweep' = [sweep EXCEPT !.cursor = @ + sweep.d,
                              !.path = PathOf(sweep),
                              !.steps = IF @ < MaxIterations THEN @ + 1 ELSE @]
    /\ UNCHANGED <<settings_doc, availability_slots, settings, services, bookings, now,
                   request, response, error_log, outbox, user_availability>>

\* The loop condition is false: the loop is left
SweepEnds ==
    /\ sweep.pc = "loop"
    /\ sweep.cursor + sweep.d >= DatetimeMin
    /\ ~FitsRange(sweep.cursor, sweep.d, sweep.end)
    /\ sweep' = [sweep EXCEPT !.pc = "done"]
    /\ UNCHANGED <<settings_doc, availability_slots, settings, services, bookings, now,
                   request, response, error_log, outbox, user_availability>>

\* "current_time + timedelta(minutes=duration)" falls below datetime.min:
\* OverflowError, caught by the function's except branch
SweepRaises ==
    /\ sweep.pc = "loop"
    /\ sweep.cursor + sweep.d < DatetimeMin
    /\ sweep' = [sweep EXCEPT !.pc = "raised"]
    /\ UNCHANGED <<settings_doc, availability_slots, settings, services, bookings, now,
                   request, response, error_log, outbox, user_availability>>

----------------------------------------------------------------------------
(* The stored configurations and clock readings the specifications draw from *)

RECURSIVE SeqsUpTo(_, _)
SeqsUpTo(S, n) ==
    IF n = 0 THEN {<<>>}
    ELSE LET shorter == SeqsUpTo(S, n - 1)
         IN shorter \cup {Append(q, x) : q \in shorter, x \in S}

RowChoices ==
    {[day_of_week |-> "Monday", from_time |-> 540, to_time |-> 600],
     [day_of_week |-> "Monday", from_time |-> 600, to_time |-> 660],
     [day_of_week |-> "tuesday", from_time |-> 600, to_time |-> 660],
     [day_of_week |-> "", from_time |-> 540, to_time |-> 600],
     [day_of_week |-> "Monday", from_time |-> NoTime, to_time |-> 600]}

TypicalSettingsDoc ==
    [exists |-> TRUE, enable_scheduling |-> 1, appointment_duration |-> 30,
     advance_booking_days |-> 0]

TypicalRows ==
    <<[day_of_week |-> "Monday", from_time |-> 540, to_time |-> 600],
      [day_of_week |-> "tuesday", from_time |-> 540, to_time |-> 600]>>

\* Two ranges of one weekday that overlap: 09:00-10:00 and 09:30-10:30
OverlappingRows ==
    <<[day_of_week |-> "Monday", from_time |-> 540, to_time |-> 600],
      [day_of_week |-> "Monday", from_time |-> 570, to_time |-> 630]>>

SettingsDocChoices ==
    {[TypicalSettingsDoc EXCEPT !.appointment_duration = d] : d \in {-30, 0, 30, 40}}
    \cup {[TypicalSettingsDoc EXCEPT !.advance_booking_days = 2],
          [TypicalSettingsDoc EXCEPT !.enable_scheduling = 0],
          [TypicalSettingsDoc EXCEPT !.exists = FALSE]}

TypicalSettings ==
    [exists |-> TRUE, working_start_time |-> 540, working_end_time |-> 600,
     default_slot_duration |-> 30, days |-> {"monday", "tuesday"}]

HoursChoices == {<<540, 600>>, <<NoTime, NoTime>>}

WorkingDayChoices == {{}, {"monday"}, {"saturday", "sunday"}}

\* default_slot_duration and the durations of the active services
DurationChoices ==
    {<<30, <<>>>>, <<0, <<>>>>, <<-30, <<>>>>, <<30, <<40>>>>, <<30, <<60, 30>>>>, <<30, <<0>>>>}

SettingsOf(h, wd, du) ==
    [exists |-> TRUE, working_start_time |-> h[1], working_end_time |-> h[2],
     default_slot_duration |-> du[1], days |-> wd]

NowChoices == {combine(6, 720), combine(7, 540), combine(7, 543), combine(7, 546)}

StoredBooking(doctype, series, n, date, t, status) ==
    [doctype |-> doctype, name |-> <<series, n>>, creation |-> combine(5, 600),
     booking_date |-> date, booking_time |-> t, status |-> status,
     appointment_type |-> IF series = "VPA" THEN "New Customer" ELSE "",
     industry |-> IF series = "VPA" THEN "x" ELSE "",
     requirements |-> IF series = "VPA" THEN "x" ELSE "",
     budget |-> IF series = "VPA" THEN "x" ELSE "",
     brand_name |-> "", acknowledgment_checkbox |-> 0]

BookingTables ==
    {<<>>,
     <<StoredBooking("Appointment Booking", "APT", 1, 7, 540, "Pending"),
       StoredBooking("Video Production Appointment", "VPA", 1, 7, 600, "Confirmed"),
       StoredBooking("Appointment Booking", "APT", 2, 8, 600, "Cancelled")>>}

\* datetime.now() reads a later time
Tick ==
    /\ \E t \in NowChoices : t > now /\ now' = t
    /\ UNCHANGED <<sweep, user_availability, settings_doc, availability_slots, settings, services, bookings,
                   request, response, error_log, outbox>>

----------------------------------------------------------------------------
(* Spec: slot generation over the stored configurations *)

Init ==
    /\ \/ /\ settings_doc \in SettingsDocChoices
          /\ availability_slots \in SeqsUpTo(RowChoices, MaxRanges) \cup {OverlappingRows}
          /\ settings = TypicalSettings
          /\ services = <<>>
       \/ /\ settings_doc = TypicalSettingsDoc
          /\ availability_slots = TypicalRows
          /\ \/ \E h \in HoursChoices, wd \in WorkingDayChoices, du \in DurationChoices :
                   /\ settings = SettingsOf(h, wd, du)
                   /\ services = du[2]
             \/ /\ settings = [TypicalSettings EXCEPT !.exists = FALSE]
                /\ services = <<>>
    /\ bookings \in BookingTables
    /\ now \in NowChoices
    /\ request = NoRequest
    /\ response = NoResponse
    /\ error_log = <<>>
    /\ outbox = {}
    /\ user_availability = <<>>
    /\ sweep = NoSweep

Next ==
    \/ GetTimeSlotsA("none")
    \/ GetTimeSlotsB("none")

Spec == Init /\ [][Next]_vars

----------------------------------------------------------------------------
(* Properties of the slot generators, checked under Spec *)

IsSlotsResponse(impl) ==
    response.fn = "get_time_slots" /\ response.impl = impl /\ response.returned

\* The start and end of a returned slot as datetimes
SlotStart(s) == combine(s.date, TimeOfHM(s.from_time))
SlotEnd(s) == combine(s.date, TimeOfHM(s.to_time))

\* The slots of a returned list that lie on a date, in list order
SlotsOn(slots, date) == SelectSeq(slots, LAMBDA s : s.date = date)

\* A stored row is a working range of a weekday
RowOfDay(r, day_name) ==
    r.day_of_week # "" /\ NormalizeDay(r.day_of_week) = day_name /\ RangeUsable(r)

\* C1: every returned slot lies inside a working range of its own weekday: it starts
\* at or after the range's from_time and ends, one slot duration later, at or before
\* its to_time; a date whose weekday has no working range has no slot
C1_SlotsInsideWorkingRange ==
    /\ IsSlotsResponse("book_appointment") =>
         \A i \in 1..Len(response.slots) :
            LET s == response.slots[i]
            IN /\ s.day = strftimeA(s.date)
               /\ SlotEnd(s) = SlotStart(s) + DurationA(settings_doc)
               /\ \E k \in 1..Len(availability_slots) :
                     /\ RowOfDay(availability_slots[k], s.day)
                     /\ combine(s.date, availability_slots[k].from_time) <= SlotStart(s)
                     /\ SlotEnd(s) <= combine(s.date, availability_slots[k].to_time)
    /\ IsSlotsResponse("book-appointment") =>
         \A i \in 1..Len(response.slots) :
            LET s == response.slots[i]
            IN /\ s.day = strftimeA(s.date)
               /\ s.day \in WorkingDaysB(settings)
               /\ SlotEnd(s) = SlotStart(s) + SlotDurationB(settings, services)
               /\ combine(s.date, StartTimeB(settings)) <= SlotStart(s)
               /\ SlotEnd(s) <= combine(s.date, EndTimeB(settings))

\* A 40-minute sweep of Monday 09:00-10:00 returned 09:00-09:40 (the remainder is
\* dropped), and the other days of the week, which have no range, have no slot
C1_Witness ==
    /\ IsSlotsResponse("book_appointment")
    /\ DurationA(settings_doc) = 40
    /\ AdvanceDaysA(settings_doc) = 7
    /\ \E i \in 1..Len(response.slots) :
          response.slots[i].from_time = 900 /\ response.slots[i].to_time = 940
    /\ \A k \in 1..Len(availability_slots) : ~RowOfDay(availability_slots[k], "Tuesday")
    /\ \A i \in 1..Len(response.slots) : response.slots[i].day = "Monday"

\* The slots floor((to - from) / d) sweeps of a free range give, in order
ExpectedSlots(date, from, to, d) ==
    [k \in 1..((to - from) \div d) |->
        [date |-> date, day |-> strftimeA(date),
         from_time |-> strftimeHM(from + (k - 1) * d),
         to_time |-> strftimeHM(from + k * d)]]

\* No Pending or Confirmed booking of either record set lies on the date
NoBlockingOn(date) ==
    \A i \in 1..Len(bookings) :
        bookings[i].booking_date = date => bookings[i].status \notin Blocking

\* The working ranges of a weekday among the stored rows
RangesOfDay(day_name) == SelectSeq(availability_slots, LAMBDA r : RowOfDay(r, day_name))

\* C2: with scheduling enabled and a duration d > 0, a future day without bookings whose
\* weekday has the single working range [from, to) gets exactly floor((to - from) / d)
\* slots, the k-th being [from + k*d, from + (k+1)*d)
C2_ExactSlotsOfSingleRange ==
    /\ (/\ IsSlotsResponse("book_appointment")
        /\ settings_doc.exists /\ settings_doc.enable_scheduling = 1
        /\ DurationA(settings_doc) > 0) =>
         \A date \in (getdate(now) + 1)..(getdate(now) + AdvanceDaysA(settings_doc) - 1) :
            LET ranges == RangesOfDay(strftimeA(date))
            IN (Len(ranges) = 1 /\ NoBlockingOn(date)) =>
                  SlotsOn(response.slots, date) =
                     ExpectedSlots(date, ranges[1].from_time, ranges[1].to_time,
                                   DurationA(settings_doc))
    /\ (/\ IsSlotsResponse("book-appointment")
        /\ settings.exists
        /\ SlotDurationB(settings, services) > 0) =>
         \A date \in (getdate(now) + 1)..(getdate(now) + HorizonDays - 1) :
            (strftimeA(date) \in WorkingDaysB(settings) /\ NoBlockingOn(date)) =>
                  SlotsOn(response.slots, date) =
                     ExpectedSlots(date, StartTimeB(settings), EndTimeB(settings),
                                   SlotDurationB(settings, services))

\* Monday 09:00-10:00 asked for on Sunday: two slots with d = 30, one slot with d = 40
C2_Witness ==
    /\ IsSlotsResponse("book_appointment")
    /\ getdate(now) = 6
    /\ bookings = <<>>
    /\ Len(RangesOfDay("Monday")) = 1
    /\ RangesOfDay("Monday")[1].from_time = 540 /\ RangesOfDay("Monday")[1].to_time = 600
    /\ \/ /\ DurationA(settings_doc) = 30
          /\ SlotsOn(response.slots, 7) =
                <<[date |-> 7, day |-> "Monday", from_time |-> 900, to_time |-> 930],
                  [date |-> 7, day |-> "Monday", from_time |-> 930, to_time |-> 1000]>>
       \/ /\ DurationA(settings_doc) = 40
          /\ SlotsOn(response.slots, 7) =
                <<[date |-> 7, day |-> "Monday", from_time |-> 900, to_time |-> 940]>>

\* C4 as stated: no returned slot starts at or before the request time, in both
\* implementations
C4_NoSlotAtOrBeforeNow ==
    (IsSlotsResponse("book_appointment") \/ IsSlotsResponse("book-appointment")) =>
        \A i \in 1..Len(response.slots) : SlotStart(response.slots[i]) > now

\* C4 as amended: book-appointment.py returns no slot starting at or before now;
\* book_appointment.py returns no slot starting more than 5 minutes before now
C4_NoSlotBeforeNowLessBuffer ==
    /\ IsSlotsResponse("book-appointment") =>
         \A i \in 1..Len(response.slots) : SlotStart(response.slots[i]) > now
    /\ IsSlotsResponse("book_appointment") =>
         \A i \in 1..Len(response.slots) :
            SlotStart(response.slots[i]) >= now - BufferMinutes

\* book_appointment.py returned a slot that had already started when it was asked
C4_Witness ==
    /\ IsSlotsResponse("book_appointment")
    /\ \E i \in 1..Len(response.slots) : SlotStart(response.slots[i]) < now

\* C5 as stated: the returned list is sorted ascending by (date, from_time)
C5_SortedByDateAndTime ==
    (IsSlotsResponse("book_appointment") \/ IsSlotsResponse("book-appointment")) =>
        \A i, j \in 1..Len(response.slots) :
            i < j => \/ response.slots[i].date < response.slots[j].date
                     \/ /\ response.slots[i].date = response.slots[j].date
                        /\ response.slots[i].from_time <= response.slots[j].from_time

\* C6 as stated: a Pending or Confirmed record of either record set keeps its slot out
\* of the list of every implementation
C6_BothRecordSetsBlock ==
    (IsSlotsResponse("book_appointment") \/ IsSlotsResponse("book-appointment")) =>
        \A b \in 1..Len(bookings) :
            bookings[b].status \in Blocking =>
                \A i \in 1..Len(response.slots) :
                    ~(/\ response.slots[i].date = bookings[b].booking_date
                      /\ response.slots[i].from_time = strftimeHM(bookings[b].booking_time))

----------------------------------------------------------------------------
(* SpecBooking: guests book slots of a fixed configuration *)

\* A payload that passes every check of every variant, for a date and a "HH:MM" time
ValidPayload(date, time_str) ==
    [customer_name |-> "Guest", phone_number |-> "5550100", email |-> "guest@example.com",
     selected_services |-> <<"Consultation">>, meeting_location |-> "Our Location",
     booking_date |-> date, booking_time |-> time_str,
     appointment_type |-> "New Customer", company |-> "Direct Line", industry |-> "Others",
     requirements |-> "Both", budget |-> "Open", brand_name |-> "",
     acknowledgment_checkbox |-> 0]

\* Payloads for Monday 09:00 and 09:30, the starts of the two slots, and for 09:15
BookingPayloads == {ValidPayload(7, t) : t \in {900, 915, 930}}

\* The payload for Monday 09:00 alone
SlotStartPayloads == {ValidPayload(7, 900)}

\* The status field is set by the workflow outside this code
SetStatus(i, status) ==
    /\ i \in 1..Len(bookings)
    /\ bookings[i].status # status
    /\ bookings' = [bookings EXCEPT ![i].status = status]
    /\ UNCHANGED <<sweep, user_availability, settings_doc, availability_slots, settings, services, now, request,
                   response, error_log, outbox>>

InitBooking ==
    /\ settings_doc = TypicalSettingsDoc
    /\ availability_slots = TypicalRows
    /\ settings = TypicalSettings
    /\ services = <<>>
    /\ bookings = <<>>
    /\ now \in {combine(6, 720), combine(7, 543)}
    /\ request = NoRequest
    /\ response = NoResponse
    /\ error_log = <<>>
    /\ outbox = {}
    /\ user_availability = <<>>
    /\ sweep = NoSweep

NextBooking ==
    \/ \E data \in BookingPayloads : CreateAppointmentA(data, TRUE, TRUE)
    \/ \E data \in SlotStartPayloads : CreateAppointmentB(data, TRUE, TRUE)
    \/ \E data \in SlotStartPayloads : CreateAppointmentV(data, TRUE, TRUE, TRUE)
    \/ \E i \in 1..MaxBookings, status \in {"Pending", "Confirmed", "Cancelled"} :
          SetStatus(i, status)
    \/ GetTimeSlotsA("none")
    \/ GetTimeSlotsB("none")

SpecBooking == InitBooking /\ [][NextBooking]_vars

\* The slots each implementation would return in the current state
SlotsNowA == get_time_slots_A(settings_doc, availability_slots, bookings, now).slots
SlotsNowB == get_time_slots_B(settings, services, bookings, now).slots

\* A list without the slots of a date and start time
WithoutSlot(slots, date, t) ==
    SelectSeq(slots, LAMBDA s : ~(s.date = date /\ s.from_time = strftimeHM(t)))

\* C3 as stated: a new Pending or Confirmed record of either record set removes from
\* what each implementation returns exactly the slot of its date and start time
C3_BookingRemovesExactlyItsSlot ==
    [][(/\ Len(bookings') = Len(bookings) + 1
        /\ bookings'[Len(bookings')].status \in Blocking) =>
          LET b == bookings'[Len(bookings')]
          IN /\ SlotsNowA' = WithoutSlot(SlotsNowA, b.booking_date, b.booking_time)
             /\ SlotsNowB' = WithoutSlot(SlotsNowB, b.booking_date, b.booking_time)]_vars

----------------------------------------------------------------------------
(* SpecIntake: one guest's payload is submitted to the three create_appointment
   endpoints, in any order and more than once *)

\* The payload with its front fields as given and type-specific fields that pass
FrontPayload(name, phone, email, svcs, type, location, date, time_str) ==
    [ValidPayload(date, time_str) EXCEPT
        !.customer_name = name, !.phone_number = phone, !.email = email,
        !.selected_services = svcs, !.appointment_type = type,
        !.meeting_location = location]

\* The payload with front fields that pass and its type-specific fields as given
TypedPayload(type, industry, requirements, budget, brand, ack, date) ==
    [ValidPayload(date, 900) EXCEPT
        !.appointment_type = type, !.industry = industry,
        !.requirements = requirements, !.budget = budget, !.brand_name = brand,
        !.acknowledgment_checkbox = ack]

\* Payloads that differ in which front fields are present
FrontPayloads ==
    {FrontPayload(cn, ph, em, sv, ty, loc, d, t) :
        cn \in {"", "Guest"}, ph \in {"", "5550100"},
        em \in {"", "not-an-email", "guest@example.com"},
        sv \in {<<>>, <<"Consultation">>}, ty \in {"", "New Customer"},
        loc \in {"", "Our Location"}, d \in {NoStr, 9}, t \in {NoStr, 900}}

\* Payloads that differ in their type-specific fields; day 5 is before and day 9
\* after the day of the request
TypedPayloads ==
    {TypedPayload(ty, ind, req, bud, br, ack, d) :
        ty \in {"New Customer", "Current Active Client"},
        ind \in {"", "Others"}, req \in {"", "Both"}, bud \in {"", "Open"},
        br \in {"", "Brand"}, ack \in {0, 1}, d \in {5, 9}}

\* Payloads that pass every check but, for some, the company
CompanyPayloads ==
    {[TypedPayload(ty, "Others", "Both", "Open", "Brand", 1, 9) EXCEPT !.company = co] :
        ty \in {"New Customer", "Current Active Client"},
        co \in {"Direct Line", "Directlines", "Easy AI", "Other Co"}}

IntakeRequests ==
    {Request(data, TRUE, TRUE, TRUE) : data \in FrontPayloads}
    \cup {Request(data, ce, TRUE, TRUE) : data \in TypedPayloads, ce \in BOOLEAN}
    \cup {Request(data, ce, io, mo) :
            data \in CompanyPayloads, ce \in BOOLEAN, io \in BOOLEAN, mo \in BOOLEAN}

InitIntake ==
    /\ settings_doc = TypicalSettingsDoc
    /\ availability_slots = TypicalRows
    /\ settings = TypicalSettings
    /\ services = <<>>
    /\ bookings = <<>>
    /\ now = combine(7, 543)
    /\ request \in IntakeRequests
    /\ response = NoResponse
    /\ error_log = <<>>
    /\ outbox = {}
    /\ user_availability = <<>>
    /\ sweep = NoSweep

NextIntake ==
    \/ CreateAppointmentA(request.data, request.insert_ok, request.mail_ok)
    \/ CreateAppointmentB(request.data, request.insert_ok, request.mail_ok)
    \/ CreateAppointmentV(request.data, request.customer_exists, request.insert_ok,
                          request.mail_ok)
    \/ \E lookup_ok \in BOOLEAN : DebugAppointmentSettings(lookup_ok)
    \/ \E lookup_ok \in BOOLEAN : GetSettingsInfo(lookup_ok)

SpecIntake == InitIntake /\ [][NextIntake]_vars

\* Whether a payload fails the check of one required field
FieldFails(data, field) ==
    CASE field = "customer_name" -> data.customer_name = ""
      [] field = "phone_number" -> data.phone_number = ""
      [] field = "email" -> data.email = ""
      [] field = "email well-formedness" -> data.email # "guest@example.com"
      [] field = "selected_services" -> Len(data.selected_services) = 0
      [] field = "appointment_type" -> data.appointment_type = ""
      [] field = "meeting_location" -> data.meeting_location = ""
      [] field = "booking_date" -> data.booking_date = NoStr
      [] field = "booking_time" -> data.booking_time = NoStr
      [] field = "company" -> data.company \notin {"Easy AI", "Directlines", "Direct Line"}

\* The message that identifies a field
FieldMessage(field) ==
    CASE field = "customer_name" -> "Customer Name is required"
      [] field = "phone_number" -> "Phone Number is required"
      [] field = "email" -> "Email is required"
      [] field = "email well-formedness" -> "is not a valid Email Address"
      [] field = "selected_services" -> "Please select at least one service"
      [] field = "appointment_type" -> "Appointment Type is required"
      [] field = "meeting_location" -> "Meeting Location is required"
      [] field = "booking_date" -> "Booking Date is required"
      [] field = "booking_time" -> "Booking Time is required"
      [] field = "company" -> "Invalid company selected"

\* The positions of an order whose field the payload fails
FailingPositions(order, data) == {i \in 1..Len(order) : FieldFails(data, order[i])}

\* The first field of an order that the payload fails
FirstFailing(order, data) ==
    order[CHOOSE i \in FailingPositions(order, data) :
              \A j \in FailingPositions(order, data) : i <= j]

\* The order the claim gives
StatedOrder ==
    <<"customer_name", "phone_number", "email", "email well-formedness",
      "selected_services", "meeting_location", "booking_date", "booking_time">>

\* The order of the video-production variant: appointment_type where the general
\* variants have selected_services, and the company last
VideoOrder ==
    <<"customer_name", "phone_number", "email", "email well-formedness",
      "appointment_type", "meeting_location", "booking_date", "booking_time", "company">>

\* A call answered with the message of the first failing field of an order, and with
\* no record created
RejectsFirstOf(order) ==
    FailingPositions(order, request'.data) # {} =>
        /\ response'.success = FALSE
        /\ response'.message = FieldMessage(FirstFailing(order, request'.data))
        /\ response'.appointment_id = NoName
        /\ bookings' = bookings

\* C7 as stated: every create_appointment variant checks customer_name, phone_number,
\* email, email well-formedness, selected_services, meeting_location, booking_date,
\* booking_time in that order, answers with the first failure only and creates no record
C7_StatedOrderInEveryVariant ==
    [][response'.fn = "create_appointment" => RejectsFirstOf(StatedOrder)]_vars

\* C7 amended: the two general variants check the stated order; the video-production
\* variant checks appointment_type in the place of selected_services and the company
\* last; each answers success=false with the message of the first failing check only
\* and creates no record
C7_FirstFailureOnlyPerVariant ==
    [][response'.fn = "create_appointment" =>
          IF response'.impl = "video-production-appointment"
          THEN RejectsFirstOf(VideoOrder)
          ELSE RejectsFirstOf(StatedOrder)]_vars

\* C7's case: name and phone present, email missing, and later fields missing too; the
\* answer names the email and nothing is stored
C7_Witness ==
    /\ response.fn = "create_appointment"
    /\ response.impl = "book_appointment"
    /\ request.data.customer_name # "" /\ request.data.phone_number # ""
    /\ request.data.email = ""
    /\ request.data.selected_services = <<>> /\ request.data.booking_time = NoStr
    /\ response.success = FALSE
    /\ response.message = "Email is required"
    /\ bookings = <<>>

\* The type-specific requirements of a stored Video Production Appointment
TypeFieldsHold(doc) ==
    /\ doc.appointment_type = "New Customer" =>
          doc.industry # "" /\ doc.requirements # "" /\ doc.budget # ""
    /\ doc.appointment_type = "Current Active Client" =>
          /\ doc.brand_name # ""
          /\ doc.booking_date # NoStr /\ doc.booking_date > getdate(doc.creation)
          /\ doc.acknowledgment_checkbox # 0

\* C8 as stated: every stored Video Production Appointment has its type-specific
\* fields: industry, requirements and budget for a New Customer; brand name, a
\* booking date in the future and the acknowledgment for a Current Active Client
C8_PersistedOnlyIfTypeFieldsHold ==
    \A i \in 1..Len(bookings) :
        bookings[i].doctype = "Video Production Appointment" => TypeFieldsHold(bookings[i])

\* C9: a create_appointment call of any variant that answers success=true has stored
\* exactly one new record, with status Pending, and answers with that record's id
C9_SuccessPersistsOnePendingRecord ==
    [][(response'.fn = "create_appointment" /\ response'.success) =>
          /\ Len(bookings') = Len(bookings) + 1
          /\ SubSeq(bookings', 1, Len(bookings)) = bookings
          /\ bookings'[Len(bookings')].status = "Pending"
          /\ bookings'[Len(bookings')].name = response'.appointment_id
          /\ \A i \in 1..Len(bookings) : bookings[i].name # response'.appointment_id]_vars

\* C9's case: with a general record already stored, the video-production variant
\* answers success=true with the id of the second, newest record
C9_Witness ==
    /\ response.fn = "create_appointment" /\ response.success
    /\ response.impl = "video-production-appointment"
    /\ Len(bookings) = 2
    /\ bookings[1].doctype = "Appointment Booking"
    /\ bookings[2].name = response.appointment_id
    /\ bookings[2].status = "Pending"

\* C10 as stated: when a record was stored and its notification could not be sent, the
\* call still answers success=true, the record stays, and the error log has a new
\* entry, in the general variants and in the video-production variant
C10_MailFailureIsLogged ==
    [][(/\ response'.fn = "create_appointment"
        /\ Len(bookings') = Len(bookings) + 1
        /\ bookings'[Len(bookings')].name \notin outbox') =>
          /\ response'.success
          /\ response'.appointment_id = bookings'[Len(bookings')].name
          /\ Len(error_log') > Len(error_log)]_vars

\* C11 as stated: no value returned to a guest carries the text of an internal
\* exception or a stack trace
C11_NoInternalDetailInResponse ==
    /\ response.message # InternalErrorText
    /\ response.error # InternalErrorText
    /\ response.traceback # TracebackText

----------------------------------------------------------------------------
(* SpecLookups: slot generation while configuration is absent or a lookup raises *)

\* Stored rows: none, the typical ones, one without a day name
RowsChoices ==
    {<<>>, TypicalRows, <<[day_of_week |-> "", from_time |-> 540, to_time |-> 600]>>}

\* Appointment Settings with its active services: typical, missing, a service of
\* duration 0, a negative default duration
SettingsAndServicesChoices ==
    {<<TypicalSettings, <<>>>>,
     <<[TypicalSettings EXCEPT !.exists = FALSE], <<>>>>,
     <<TypicalSettings, <<0>>>>,
     <<[TypicalSettings EXCEPT !.default_slot_duration = -30], <<>>>>}

InitLookups ==
    /\ \/ /\ settings_doc \in SettingsDocChoices
          /\ availability_slots \in RowsChoices
          /\ settings = TypicalSettings
          /\ services = <<>>
       \/ /\ settings_doc = TypicalSettingsDoc
          /\ availability_slots = TypicalRows
          /\ \E c \in SettingsAndServicesChoices : settings = c[1] /\ services = c[2]
    /\ bookings \in BookingTables
    /\ now \in NowChoices
    /\ request = NoRequest
    /\ response = NoResponse
    /\ error_log = <<>>
    /\ outbox = {}
    /\ user_availability = <<>>
    /\ sweep = NoSweep

NextLookups ==
    \/ \E failing \in Lookups : GetTimeSlotsA(failing)
    \/ \E failing \in Lookups : GetTimeSlotsB(failing)

SpecLookups == InitLookups /\ [][NextLookups]_vars

\* C12: a get_time_slots call returns the empty list, and returns, when its settings
\* record is missing, when scheduling is disabled, when no availability range is
\* stored, and when a lookup it makes raises
C12_EmptyOnAbsenceOrRaisingLookup ==
    [][/\ (/\ response'.fn = "get_time_slots" /\ response'.impl = "book_appointment"
           /\ \/ ~settings_doc.exists
              \/ settings_doc.enable_scheduling = 0
              \/ availability_slots = <<>>) =>
             response'.returned /\ response'.slots = <<>>
       /\ (/\ response'.fn = "get_time_slots" /\ response'.impl = "book-appointment"
           /\ ~settings.exists) =>
             response'.returned /\ response'.slots = <<>>
       /\ (\E failing \in Lookups \ {"none"} :
              \/ /\ GetTimeSlotsA(failing)
                 /\ get_time_slots_A_raising(settings_doc, availability_slots, bookings,
                                             now, failing).log
                    # get_time_slots_A(settings_doc, availability_slots, bookings, now).log
              \/ /\ GetTimeSlotsB(failing)
                 /\ get_time_slots_B_raising(settings, services, bookings, now, failing).log
                    # get_time_slots_B(settings, services, bookings, now).log) =>
             response'.returned /\ response'.slots = <<>>]_vars

\* C12's cases: book_appointment.py answered [] with scheduling disabled although rows
\* are stored, or answered [] because a lookup raised in a configuration that
\* otherwise yields slots
C12_Witness ==
    /\ IsSlotsResponse("book_appointment")
    /\ response.slots = <<>>
    /\ settings_doc.exists /\ availability_slots = TypicalRows
    /\ DurationA(settings_doc) > 0
    /\ bookings = <<>>
    /\ \/ settings_doc.enable_scheduling = 0
       \/ /\ settings_doc.enable_scheduling = 1
          /\ get_time_slots_A(settings_doc, availability_slots, bookings, now).slots # <<>>
          /\ error_log = <<"Error fetching time slots">>

----------------------------------------------------------------------------
(* SpecAvailability: users save their weekly availability *)

SessionUsers == {"Guest", "amal@example.com", "badr@example.com"}

MorningRange == [from_time |-> 900, to_time |-> 1200]
EveningRange == [from_time |-> 1600, to_time |-> 1800]

AvailabilityEntry(day, is_available, time_slots) ==
    [day |-> day, is_available |-> is_available, time_slots |-> time_slots]

\* Payloads: empty, one day, two days, the same day twice, an unavailable day that
\* still lists ranges
AvailabilityPayloads ==
    {<<>>,
     <<AvailabilityEntry("Monday", 1, <<MorningRange>>)>>,
     <<AvailabilityEntry("Monday", 1, <<MorningRange, EveningRange>>)>>,
     <<AvailabilityEntry("Monday", 0, <<MorningRange>>)>>,
     <<AvailabilityEntry("Monday", 1, <<EveningRange>>),
       AvailabilityEntry("Tuesday", 0, <<>>)>>,
     <<AvailabilityEntry("Monday", 1, <<MorningRange>>),
       AvailabilityEntry("Monday", 1, <<EveningRange>>)>>,
     <<AvailabilityEntry("Tuesday", 1, <<MorningRange>>),
       AvailabilityEntry("Tuesday", 0, <<EveningRange>>)>>}

InitAvailability ==
    /\ settings_doc = TypicalSettingsDoc
    /\ availability_slots = TypicalRows
    /\ settings = TypicalSettings
    /\ services = <<>>
    /\ bookings = <<>>
    /\ now = combine(7, 543)
    /\ request = NoRequest
    /\ response = NoResponse
    /\ error_log = <<>>
    /\ outbox = {}
    /\ user_availability = <<>>
    /\ sweep = NoSweep

NextAvailability ==
    \E user \in SessionUsers, data \in AvailabilityPayloads, fail_at \in {0, 2} :
        SaveAvailability(user, data, fail_at)

SpecAvailability == InitAvailability /\ [][NextAvailability]_vars

\* The records stored for a user and a weekday
RecordsOf(store, user, day) ==
    {i \in 1..Len(store) : store[i].user = user /\ store[i].day_of_week = day}

\* The weekdays a user has a record for
DaysStored(store, user) ==
    {store[i].day_of_week : i \in {j \in 1..Len(store) : store[j].user = user}}

\* The last entry of a payload for a weekday
LastEntryFor(data, day) ==
    data[CHOOSE k \in 1..Len(data) :
            /\ data[k].day = day
            /\ \A j \in (k + 1)..Len(data) : data[j].day # day]

\* The ranges an entry asks to store, as stored times
RangesAsked(entry) ==
    [k \in 1..Len(entry.time_slots) |->
        [from_time |-> ((entry.time_slots[k].from_time \div 100) * 60)
                       + (entry.time_slots[k].from_time % 100),
         to_time |-> ((entry.time_slots[k].to_time \div 100) * 60)
                     + (entry.time_slots[k].to_time % 100)]]

\* C13: the store never holds two records of one (user, weekday); after a successful
\* save_availability the record of each weekday of the payload holds the flag of the
\* last entry for that weekday and exactly its ranges (none when the flag is false),
\* the records of other users and weekdays are as before, and the same call made
\* again would leave the store as it is
C13_SaveAvailabilityIsUpsert ==
    [][/\ \A i, j \in 1..Len(user_availability') :
             (/\ user_availability'[i].user = user_availability'[j].user
              /\ user_availability'[i].day_of_week = user_availability'[j].day_of_week)
             => i = j
       /\ \A user \in SessionUsers, data \in AvailabilityPayloads :
             (SaveAvailability(user, data, 0) /\ response'.success) =>
                /\ \A k \in 1..Len(data) :
                      LET last == LastEntryFor(data, data[k].day)
                      IN \E i \in RecordsOf(user_availability', user, data[k].day) :
                            /\ user_availability'[i].is_available = last.is_available
                            /\ user_availability'[i].time_slots =
                                  IF last.is_available # 0 THEN RangesAsked(last) ELSE <<>>
                /\ \A i \in 1..Len(user_availability) :
                      (\/ user_availability[i].user # user
                       \/ \A k \in 1..Len(data) :
                             data[k].day # user_availability[i].day_of_week)
                      => user_availability'[i] = user_availability[i]
                /\ Len(user_availability') =
                      Len(user_availability)
                      + Cardinality({data[k].day : k \in 1..Len(data)}
                                    \ DaysStored(user_availability, user))
                /\ ApplyEntries(user_availability', user, data, Len(data))
                      = user_availability']_vars

\* C13's case: after a successful call three records are stored; two users each have
\* their own Monday, one unavailable and without ranges, the other with two ranges
C13_Witness ==
    /\ response.fn = "save_availability" /\ response.success
    /\ Len(user_availability) = 3
    /\ \E i, j \in 1..Len(user_availability) :
          /\ user_availability[i].user # user_availability[j].user
          /\ user_availability[i].day_of_week = "Monday"
          /\ user_availability[j].day_of_week = "Monday"
          /\ user_availability[i].is_available = 0
          /\ user_availability[i].time_slots = <<>>
          /\ Len(user_availability[j].time_slots) = 2

----------------------------------------------------------------------------
(* Properties of booking and slot generation together, checked under SpecBooking *)

\* The step is a get_time_slots call that returned
SlotsCall == response'.fn = "get_time_slots" /\ response' # response /\ response'.returned

\* C14 as stated: no slot a get_time_slots call returns contains the booking_time of a
\* Pending or Confirmed booking of its date, aligned to the slot grid or not
C14_NoSlotOverlapsBooking ==
    [][SlotsCall =>
          \A i \in 1..Len(response'.slots), b \in 1..Len(bookings) :
             (/\ bookings[b].status \in {"Pending", "Confirmed"}
              /\ bookings[b].booking_date = response'.slots[i].date) =>
                ~(/\ TimeOfHM(response'.slots[i].from_time) <= bookings[b].booking_time
                  /\ bookings[b].booking_time < TimeOfHM(response'.slots[i].to_time))]_vars

\* The slots an implementation returns now when no booking is stored: the candidates
\* that are in a working range and not in the past
FreeSlots(impl) ==
    IF impl = "book_appointment"
    THEN get_time_slots_A(settings_doc, availability_slots, <<>>, now).slots
    ELSE get_time_slots_B(settings, services, <<>>, now).slots

\* A returned list has a slot of a date and start time
HasSlot(slots, date, t) ==
    \E i \in 1..Len(slots) : slots[i].date = date /\ slots[i].from_time = strftimeHM(t)

\* C15: a get_time_slots call returns the candidate at the date and time of a
\* Cancelled booking, provided the candidate is in a working range and not in the
\* past and no Pending or Confirmed booking has the same date and time; so a slot
\* whose booking was cancelled is returned again by the next call
C15_CancelledDoesNotBlock ==
    [][SlotsCall =>
          \A b \in 1..Len(bookings) :
             (/\ bookings[b].status = "Cancelled"
              /\ HasSlot(FreeSlots(response'.impl), bookings[b].booking_date,
                         bookings[b].booking_time)
              /\ \A c \in 1..Len(bookings) :
                    (/\ bookings[c].booking_date = bookings[b].booking_date
                     /\ bookings[c].booking_time = bookings[b].booking_time)
                    => bookings[c].status \notin {"Pending", "Confirmed"}) =>
                HasSlot(response'.slots, bookings[b].booking_date,
                        bookings[b].booking_time)]_vars

\* C15's case: the Appointment Booking made for Monday 09:00 is Cancelled and
\* book_appointment.py's get_time_slots, called after the booking was made, returned
\* Monday 09:00
C15_Witness ==
    /\ IsSlotsResponse("book_appointment")
    /\ Len(bookings) = 1
    /\ bookings[1].doctype = "Appointment Booking"
    /\ bookings[1].booking_date = 7 /\ bookings[1].booking_time = 540
    /\ bookings[1].status = "Cancelled"
    /\ HasSlot(response.slots, 7, 540)

\* C16 as stated: once create_appointment has stored a booking at the start of a slot,
\* every later get_time_slots call leaves that slot out while the booking is Pending
\* or Confirmed
C16_BookedSlotOmittedByLaterCalls ==
    [][SlotsCall =>
          \A b \in 1..Len(bookings) :
             (/\ bookings[b].status \in {"Pending", "Confirmed"}
              /\ HasSlot(FreeSlots(response'.impl), bookings[b].booking_date,
                         bookings[b].booking_time)) =>
                ~HasSlot(response'.slots, bookings[b].booking_date,
                         bookings[b].booking_time)]_vars

\* The step is a create_appointment call
CreateCall ==
    /\ response'.fn = "create_appointment"
    /\ Len(bookings') # Len(bookings) \/ error_log' # error_log

\* C17: create_appointment looks at no existing booking: a call whose payload passes
\* validation answers success=true and stores a Pending record for its date and time
\* whatever records are stored, also when a Pending record already holds that date and
\* time, so two Pending records for one slot are reachable
C17_NoAvailabilityCheckOnCreate ==
    [][CreateCall =>
          /\ response'.success
          /\ Len(bookings') = Len(bookings) + 1
          /\ bookings'[Len(bookings')].status = "Pending"
          /\ bookings'[Len(bookings')].booking_date = request'.data.booking_date
          /\ bookings'[Len(bookings')].booking_time
                = ((request'.data.booking_time \div 100) * 60)
                  + (request'.data.booking_time % 100)]_vars

\* C17's case: two guests booked Monday 09:00 through the general variant; both calls
\* answered success=true and both records are Pending
C17_Witness ==
    /\ response.fn = "create_appointment" /\ response.success
    /\ Len(bookings) = 2
    /\ bookings[1].name # bookings[2].name
    /\ \A i \in {1, 2} :
          /\ bookings[i].doctype = "Appointment Booking"
          /\ bookings[i].status = "Pending"
          /\ bookings[i].booking_date = 7 /\ bookings[i].booking_time = 540
    /\ response.appointment_id = bookings[2].name
    /\ {bookings[1].name, bookings[2].name} \subseteq outbox

----------------------------------------------------------------------------
(* Further properties of the slot generators, checked under Spec *)

MondayToFriday == {"Monday", "Tuesday", "Wednesday", "Thursday", "Friday"}

\* A returned list is what a Monday-to-Friday configuration gives over n days: no slot
\* on another weekday, and slots on every Monday-to-Friday date after today that has
\* no Pending or Confirmed booking
MondayToFridayOnly(slots, today, n) ==
    /\ \A i \in 1..Len(slots) : strftimeA(slots[i].date) \in MondayToFriday
    /\ \A date \in (today + 1)..(today + n - 1) :
          (strftimeA(date) \in MondayToFriday /\ NoBlockingOn(date)) =>
             SlotsOn(slots, date) # <<>>

\* Appointment Booking Settings is usable but no stored row names a weekday
NoDayConfiguredA ==
    /\ settings_doc.exists /\ settings_doc.enable_scheduling = 1
    /\ settings_doc.appointment_duration >= 0
    /\ \A k \in 1..Len(availability_slots) : availability_slots[k].day_of_week = ""

\* Appointment Settings has no weekday ticked, and its hours fit a slot of a positive
\* duration
NoDayConfiguredB ==
    /\ settings.exists /\ settings.days = {}
    /\ SlotDurationB(settings, services) > 0
    /\ StartTimeB(settings) + SlotDurationB(settings, services) <= EndTimeB(settings)

\* C18 as stated: with no working day configured, every implementation returns the
\* slots of a Monday-to-Friday configuration
C18_MondayToFridayFallbackEverywhere ==
    /\ (IsSlotsResponse("book_appointment") /\ NoDayConfiguredA) =>
          MondayToFridayOnly(response.slots, now \div 1440,
                             IF settings_doc.advance_booking_days = 0 THEN 7
                             ELSE settings_doc.advance_booking_days)
    /\ (IsSlotsResponse("book-appointment") /\ NoDayConfiguredB) =>
          MondayToFridayOnly(response.slots, now \div 1440, 30)

\* C18 amended: with no weekday ticked, book-appointment.py returns slots on the
\* Monday-to-Friday dates of its 30 days and on no Saturday or Sunday;
\* book_appointment.py, with no row naming a weekday, returns the empty list
C18_FallbackOnlyInGlobalHoursVariant ==
    /\ (IsSlotsResponse("book_appointment") /\ NoDayConfiguredA) => response.slots = <<>>
    /\ (IsSlotsResponse("book-appointment") /\ NoDayConfiguredB) =>
          MondayToFridayOnly(response.slots, now \div 1440, 30)

\* C18's case: no weekday is ticked; book-appointment.py returned slots on Friday the
\* 11th and on Monday the 14th, none on the weekend between them
C18_Witness ==
    /\ IsSlotsResponse("book-appointment") /\ NoDayConfiguredB
    /\ SlotsOn(response.slots, 11) # <<>>
    /\ SlotsOn(response.slots, 12) = <<>> /\ SlotsOn(response.slots, 13) = <<>>
    /\ SlotsOn(response.slots, 14) # <<>>

\* Every slot of a list lies on one of the n dates that start today
DatesWithin(slots, today, n) ==
    \A i \in 1..Len(slots) : today <= slots[i].date /\ slots[i].date <= today + n - 1

\* C19: every returned slot's date lies in today .. today + horizon - 1, the horizon
\* being advance_booking_days (7 when unset) in book_appointment.py and 30 days in
\* book-appointment.py
C19_SlotDatesWithinHorizon ==
    /\ IsSlotsResponse("book_appointment") =>
          DatesWithin(response.slots, now \div 1440,
                      IF settings_doc.advance_booking_days = 0 THEN 7
                      ELSE settings_doc.advance_booking_days)
    /\ IsSlotsResponse("book-appointment") =>
          DatesWithin(response.slots, now \div 1440, 30)

\* C19's case: on Sunday the 6th with advance_booking_days = 2 and rows for Monday and
\* Tuesday, book_appointment.py returned slots on Monday the 7th, the horizon's last
\* day, and none on Tuesday the 8th
C19_Witness ==
    /\ IsSlotsResponse("book_appointment")
    /\ settings_doc.advance_booking_days = 2 /\ now \div 1440 = 6
    /\ \E k \in 1..Len(availability_slots) :
          RowOfDay(availability_slots[k], "Tuesday")
    /\ SlotsOn(response.slots, 7) # <<>>
    /\ SlotsOn(response.slots, 8) = <<>>

\* The duration as stated: the least duration of the active services when there is
\* one, else the configured default, 60 when that is unset
StatedDuration(svc, default) ==
    IF Len(svc) > 0
    THEN CHOOSE m \in {svc[i] : i \in 1..Len(svc)} : \A i \in 1..Len(svc) : m <= svc[i]
    ELSE IF default = 0 THEN 60 ELSE default

\* A call of get_time_slots that got as far as reading the duration
SweptBy(impl) ==
    /\ response.fn = "get_time_slots" /\ response.impl = impl
    /\ IF impl = "book_appointment"
       THEN settings_doc.exists /\ settings_doc.enable_scheduling = 1
       ELSE settings.exists

\* Every slot of a list is d minutes long
SlotsLast(slots, d) ==
    \A i \in 1..Len(slots) : SlotEnd(slots[i]) - SlotStart(slots[i]) = d

\* C20: the duration the sweep uses is positive and is the least duration of the active
\* services when there is one, else the configured default (60 when unset); the call
\* returns and every slot it returns has that length
C20_DurationPositiveMinServiceOrDefault ==
    /\ SweptBy("book_appointment") =>
          /\ DurationA(settings_doc) > 0
          /\ DurationA(settings_doc) =
                StatedDuration(services, settings_doc.appointment_duration)
          /\ response.returned
          /\ SlotsLast(response.slots, DurationA(settings_doc))
    /\ SweptBy("book-appointment") =>
          /\ SlotDurationB(settings, services) > 0
          /\ SlotDurationB(settings, services) =
                StatedDuration(services, settings.default_slot_duration)
          /\ response.returned
          /\ SlotsLast(response.slots, SlotDurationB(settings, services))

\* The sweep of a stored range with duration d > 0 produces a candidate starting at t
Covers(r, t, d) ==
    /\ r.from_time <= t /\ (t - r.from_time) % d = 0
    /\ t + d <= r.to_time

\* The start times to look at on a day: those of the returned slots and those the
\* sweeps of the stored ranges visit
StartsToCount(slots, rows, d) ==
    {TimeOfHM(slots[i].from_time) : i \in 1..Len(slots)}
    \cup UNION {{rows[k].from_time + j * d : j \in 0..((rows[k].to_time - rows[k].from_time) \div d)} :
                   k \in {k2 \in 1..Len(rows) : RangeUsable(rows[k2])}}

\* How many slots of a list are on a date and start at t
TimesListed(slots, date, t) ==
    Cardinality({i \in 1..Len(slots) :
                    slots[i].date = date /\ slots[i].from_time = strftimeHM(t)})

\* C21: each stored range of a weekday is swept on its own and nothing is
\* deduplicated: on a future day without bookings, a start time is returned once per
\* range of the weekday whose sweep covers it, so twice where two ranges overlap or
\* are identical
C21_OncePerCoveringRange ==
    (/\ IsSlotsResponse("book_appointment")
     /\ settings_doc.exists /\ settings_doc.enable_scheduling = 1
     /\ DurationA(settings_doc) > 0) =>
       \A date \in (getdate(now) + 1)..(getdate(now) + AdvanceDaysA(settings_doc) - 1) :
          NoBlockingOn(date) =>
             \A t \in StartsToCount(response.slots, availability_slots,
                                      DurationA(settings_doc)) :
                TimesListed(response.slots, date, t) =
                   Cardinality({k \in 1..Len(availability_slots) :
                                   /\ RowOfDay(availability_slots[k], strftimeA(date))
                                   /\ Covers(availability_slots[k], t,
                                             DurationA(settings_doc))})

\* C21's case: Monday has the overlapping ranges 09:00-10:00 and 09:30-10:30 and a
\* 30-minute duration; 09:30, covered by both, was returned twice for Monday the 7th,
\* 09:00 and 10:00 once each
C21_Witness ==
    /\ IsSlotsResponse("book_appointment")
    /\ availability_slots = OverlappingRows
    /\ TimesListed(response.slots, 7, 570) = 2
    /\ TimesListed(response.slots, 7, 540) = 1
    /\ TimesListed(response.slots, 7, 600) = 1

----------------------------------------------------------------------------
(* SpecSweep: the per-range loop of both implementations, run to its end *)

SweepBookings ==
    {<<>>, <<StoredBooking("Appointment Booking", "APT", 1, 7, 570, "Pending")>>}

InitSweep ==
    /\ \/ /\ settings_doc \in SettingsDocChoices
          /\ availability_slots = TypicalRows
          /\ settings = TypicalSettings
          /\ services = <<>>
       \/ /\ settings_doc = TypicalSettingsDoc
          /\ availability_slots = TypicalRows
          /\ \E wd \in WorkingDayChoices, du \in DurationChoices :
                /\ settings = SettingsOf(<<540, 600>>, wd, du)
                /\ services = du[2]
    /\ bookings \in SweepBookings
    /\ now \in {combine(6, 720), combine(7, 546)}
    /\ request = NoRequest
    /\ response = NoResponse
    /\ error_log = <<>>
    /\ outbox = {}
    /\ user_availability = <<>>
    /\ sweep = NoSweep

NextSweep ==
    \/ \E i \in 0..(HorizonDays - 1), k \in 1..MaxRanges : BeginSweepA(i, k)
    \/ \E i \in 0..(HorizonDays - 1) : BeginSweepB(i)
    \/ SweepIteration
    \/ SweepEnds
    \/ SweepRaises

\* The loop runs in the one thread that serves the request: an iteration that can be
\* taken is taken
SpecSweep == InitSweep /\ [][NextSweep]_vars /\ WF_vars(NextSweep)

\* C22: both implementations terminate for every stored configuration: an entered
\* loop is left (by its condition or by an exception), and every iteration moves the
\* cursor forward, also for a duration that is 0, unset or negative
C22_EverySweepTerminates ==
    /\ (sweep.pc = "loop") ~> (sweep.pc \in {"done", "raised"})
    /\ [][(sweep.pc = "loop" /\ sweep'.pc = "loop") => sweep'.cursor > sweep.cursor]_vars

====
